---- MODULE Spec2Model ----
(***************************************************************************)
(* Model of the question extractor (src/src/main.rs): the text normalizer  *)
(* clean_text, the line-oriented parser parse_questions and the fold of    *)
(* async_main that concatenates the results of successive calls.           *)
(*                                                                         *)
(* A Rust string is a sequence of characters, each a one-character TLA+    *)
(* string; "é" stands for the characters whose UTF-8 encoding is longer    *)
(* than one byte.                                                          *)
(***************************************************************************)
EXTENDS Integers, Sequences, FiniteSets, TLC

VARIABLES
    full_text,          \* parse_questions: the argument
    lines,              \* parse_questions: full_text.split('\n')
    pos,                \* index in lines of the line the for loop takes next
    questions,          \* parse_questions: Vec<Question>
    current_question,   \* Option<Question>: <<>> is None, <<q>> is Some(q)
    question_number,    \* parse_questions: the counter
    pc,                 \* "loop", "returned" (Ok(questions)), "error", "panic", "idle"
    all_questions,      \* the fold's accumulator all_questions_acc
    total_questions_parsed, \* the fold's accumulator total_questions_parsed_acc
    page_number,        \* number of parse_questions calls the fold has started
    call_log,           \* history: <<argument, result>> of each finished call
    raw,                \* clean_text: the argument of the call under study
    cleaned,            \* clean_text: the results of the calls made so far
    pdf_pages,          \* async_main: the text extract_text returned
    vite_pc,            \* vite.rs main: the command run next, "ok" or "error"
    commands_run        \* vite.rs: history of the commands run, with outcomes

vars == <<full_text, lines, pos, questions, current_question, question_number,
          pc, all_questions, total_questions_parsed, page_number, call_log,
          raw, cleaned, pdf_pages, vite_pc, commands_run>>

parser_vars == <<full_text, lines, pos, questions, current_question,
                 question_number, pc>>
fold_vars == <<all_questions, total_questions_parsed, page_number, call_log>>
clean_vars == <<raw, cleaned>>
vite_vars == <<vite_pc, commands_run>>

(***************************************************************************)
(* Bounds of the model.                                                    *)
(***************************************************************************)
MaxLines == 3       \* lines of one full_text
MaxTokens == 4      \* tokens of one clean_text argument
MaxCalls == 2       \* parse_questions calls of one fold
ManyQuestions == 11 \* question-start lines of the long text
MaxDocLines == 3    \* lines of one extracted document

(***************************************************************************)
(* Characters.                                                             *)
(***************************************************************************)
\* char::is_whitespace / regex \s, restricted to the characters of the model
IsWhitespace(c) == c \in {" ", "\t", "\r"}

\* regex \d, restricted to the ASCII digits
DigitChars == <<"0", "1", "2", "3", "4", "5", "6", "7", "8", "9">>
IsDigit(c) == \E d \in 1..10 : DigitChars[d] = c

\* char::len_utf8
len_utf8(c) == IF c = "é" THEN 2 ELSE 1

RECURSIVE ByteLen(_)
\* str::len: the length in bytes
ByteLen(s) == IF s = <<>> THEN 0 ELSE len_utf8(Head(s)) + ByteLen(Tail(s))

\* str::is_char_boundary
is_char_boundary(s, index) ==
    \E k \in 0..Len(s) : ByteLen(SubSeq(s, 1, k)) = index

(***************************************************************************)
(* BR_REGEX = <br\s*/?> and clean_text.                                    *)
(***************************************************************************)
RECURSIVE SkipWhitespace(_, _)
\* the index of the first non-whitespace character of s at or after i
SkipWhitespace(s, i) ==
    IF i <= Len(s) /\ IsWhitespace(s[i]) THEN SkipWhitespace(s, i + 1) ELSE i

\* The index of the last character of the match of BR_REGEX that starts at
\* index i of s, 0 when none starts there.  \s* is greedy; whitespace, '/'
\* and '>' are disjoint, so backtracking finds no other match.
BrMatchEnd(s, i) ==
    IF i + 2 <= Len(s) /\ s[i] = "<" /\ s[i + 1] = "b" /\ s[i + 2] = "r"
    THEN LET j == SkipWhitespace(s, i + 3)
             k == IF j <= Len(s) /\ s[j] = "/" THEN j + 1 ELSE j
         IN  IF k <= Len(s) /\ s[k] = ">" THEN k ELSE 0
    ELSE 0

RECURSIVE ReplaceFrom(_, _)
\* Regex::replace_all(text, " ") from index i on: the leftmost matches, not
\* overlapping, each replaced by one space
ReplaceFrom(s, i) ==
    IF i > Len(s) THEN <<>>
    ELSE LET e == BrMatchEnd(s, i)
         IN  IF e # 0 THEN <<" ">> \o ReplaceFrom(s, e + 1)
             ELSE <<s[i]>> \o ReplaceFrom(s, i + 1)

replace_all(s) == ReplaceFrom(s, 1)

RECURSIVE trim_start(_)
trim_start(s) ==
    IF s # <<>> /\ IsWhitespace(Head(s)) THEN trim_start(Tail(s)) ELSE s

RECURSIVE trim_end(_)
trim_end(s) ==
    IF s # <<>> /\ IsWhitespace(s[Len(s)])
    THEN trim_end(SubSeq(s, 1, Len(s) - 1)) ELSE s

\* str::trim
trim(s) == trim_end(trim_start(s))

\* a plausible slip: trimming before the tags are replaced
clean_text_trim_first(text) == replace_all(trim(text))

\* a plausible slip: only the start of the line is trimmed
clean_text_trim_start_only(text) == trim_start(replace_all(text))

\* fn clean_text
clean_text(text) == trim(replace_all(text))

(***************************************************************************)
(* The two patterns of parse_questions and the helpers it calls.           *)
(***************************************************************************)
RECURSIVE SkipDigits(_, _)
SkipDigits(s, i) ==
    IF i <= Len(s) /\ IsDigit(s[i]) THEN SkipDigits(s, i + 1) ELSE i

\* digit_regex.is_match: ^\d+\.
digit_regex_is_match(s) ==
    /\ s # <<>>
    /\ IsDigit(s[1])
    /\ LET j == SkipDigits(s, 1) IN j <= Len(s) /\ s[j] = "."

\* a plausible slip: the pattern without the period, ^[A-D]
choice_regex_no_period(s) == s # <<>> /\ s[1] \in {"A", "B", "C", "D"}

\* choice_regex.is_match: ^[A-D]\.
choice_regex_is_match(s) ==
    Len(s) >= 2 /\ s[1] \in {"A", "B", "C", "D"} /\ s[2] = "."

\* str::split_at(mid) panics unless mid is a character boundary of s
split_at_panics(s, mid) == ~ is_char_boundary(s, mid)

\* str::split_at(mid), when it does not panic
split_at(s, mid) ==
    LET k == CHOOSE k \in 0..Len(s) : ByteLen(SubSeq(s, 1, k)) = mid
    IN  <<SubSeq(s, 1, k), SubSeq(s, k + 1, Len(s))>>

RECURSIVE to_string(_)
\* i32::to_string of a positive number
to_string(n) ==
    IF n < 10 THEN <<DigitChars[n + 1]>>
    ELSE to_string(n \div 10) \o <<DigitChars[(n % 10) + 1]>>

\* a plausible slip: the first value of a label is kept
HashMapInsertKeepFirst(m, k, v) ==
    [x \in DOMAIN m \cup {k} |-> IF x \in DOMAIN m THEN m[x] ELSE v]

\* HashMap::insert
HashMapInsert(m, k, v) ==
    [x \in DOMAIN m \cup {k} |-> IF x = k THEN v ELSE m[x]]

\* HashMap::new
EmptyMap == [x \in {} |-> <<>>]

\* full_text.split('\n'): the pieces between the newlines, at least one
RECURSIVE split_newline(_)
split_newline(s) ==
    IF \E i \in 1..Len(s) : s[i] = "\n"
    THEN LET i == CHOOSE i \in 1..Len(s) :
                      s[i] = "\n" /\ \A j \in 1..(i - 1) : s[j] # "\n"
         IN  <<SubSeq(s, 1, i - 1)>> \o split_newline(SubSeq(s, i + 1, Len(s)))
    ELSE <<s>>

(***************************************************************************)
(* Inputs.                                                                 *)
(***************************************************************************)
RECURSIVE Flatten(_)
\* the concatenation of a sequence of strings
Flatten(ss) == IF ss = <<>> THEN <<>> ELSE Head(ss) \o Flatten(Tail(ss))

RECURSIVE JoinLines(_)
\* the text whose lines are ls: the lines with a newline between them
JoinLines(ls) ==
    IF Len(ls) = 1 THEN ls[1] ELSE ls[1] \o <<"\n">> \o JoinLines(Tail(ls))

\* raw lines of a page: question starts, choices, continuations, empty lines
RawLines ==
    { <<"1", ".", " ", "Q">>,                             \* 1. Q
      <<"<", "b", "r", ">", " ", "1", "2", ".", "R", " ">>, \* <br> 12.R
      <<"1", " ", "Q">>,                                  \* 1 Q
      <<"A", ".", " ", "x">>,                             \* A. x
      <<"A", ".", " ", "y">>,                             \* A. y
      <<"B", ".">>,                                       \* B.
      <<"A">>,                                            \* A
      <<"A", "é">>,                                       \* Aé
      <<"E", ".", " ", "z">>,                             \* E. z
      <<"m", "<", "b", "r", "/", ">", "t">>,              \* m<br/>t
      <<>>,                                               \* the empty line
      <<" ", "<", "b", "r", " ", ">", "\t">> }            \* only a tag

\* the sequences over S of length 1..n
SeqsUpTo(S, n) == UNION { [1..k -> S] : k \in 1..n }

\* a text of ManyQuestions question-start lines
LongText == JoinLines([k \in 1..ManyQuestions |-> <<"7", ".">>])

\* the arguments of parse_questions the model draws from
Texts == { JoinLines(ls) : ls \in SeqsUpTo(RawLines, MaxLines) } \cup {LongText}

\* the arguments of the calls of one fold: texts with two, one and no
\* question-start line
CallTexts ==
    { JoinLines(<< <<"1", ".", " ", "Q">>, <<"A", ".", " ", "x">>, <<>>,
                   <<"2", ".", " ", "R">> >>),
      JoinLines(<< <<"t">>, <<"1", ".", " ", "Q">>, <<"t">> >>),
      JoinLines(<< <<"5", ".">>, <<"B", ".">> >>),
      <<"1", ".", " ", "Q">>,
      <<"t">>,
      <<>> }

\* the pieces the arguments of clean_text are made of
Tokens ==
    { <<"<", "b", "r">>, <<">">>, <<"/">>, <<" ">>, <<"\t">>, <<"x">>,
      <<"<">>, <<"<", "b", "r", ">">>, <<"<", "b", "r", " ", "/", ">">> }
CleanInputs ==
    { Flatten(ts) : ts \in UNION { [1..k -> Tokens] : k \in 0..MaxTokens } }

(***************************************************************************)
(* parse_questions.                                                        *)
(***************************************************************************)
\* a plausible slip: the answer field is filled with a default, Some(0)
NewQuestionWithAnswer(n) ==
    [number |-> to_string(n), text |-> <<>>, choices |-> EmptyMap,
     correct_answers |-> "Some(0)"]

\* Question { number, text: String::new(), choices: HashMap::new(),
\*            correct_answers: None }
NewQuestion(n) ==
    [number |-> to_string(n), text |-> <<>>, choices |-> EmptyMap,
     correct_answers |-> "None"]

\* Regex::new of the two fixed patterns succeeds
PatternsCompile == TRUE

\* the locals of parse_questions after lines 135-141, for the argument text;
\* first_number is the value question_number starts from
Entry(text, first_number) ==
    /\ full_text' = text
    /\ lines' = split_newline(text)
    /\ pos' = 1
    /\ questions' = <<>>
    /\ current_question' = <<>>
    /\ question_number' = first_number
    /\ pc' = IF PatternsCompile THEN "loop" ELSE "error"

\* the line the for loop takes next, after clean_text
cleaned_line == clean_text(lines[pos])

InLoop == pc = "loop" /\ pos <= Len(lines)

\* a plausible slip: an empty line closes the question in progress
SkipEmptyClosesQuestion ==
    /\ InLoop
    /\ cleaned_line = <<>>
    /\ questions' = questions \o current_question
    /\ current_question' = <<>>
    /\ pos' = pos + 1
    /\ UNCHANGED <<full_text, lines, question_number, pc, fold_vars,
                   clean_vars, pdf_pages, vite_vars>>

\* if cleaned_line.is_empty() { continue; }
SkipEmpty ==
    /\ InLoop
    /\ cleaned_line = <<>>
    /\ pos' = pos + 1
    /\ UNCHANGED <<full_text, lines, questions, current_question,
                   question_number, pc, fold_vars, clean_vars,
                   pdf_pages, vite_vars>>

\* a plausible slip: the counter is incremented before the number is taken
StartQuestionIncrementFirst ==
    /\ InLoop
    /\ cleaned_line # <<>>
    /\ digit_regex_is_match(cleaned_line)
    /\ questions' = questions \o current_question
    /\ question_number' = question_number + 1
    /\ current_question' = <<NewQuestion(question_number')>>
    /\ pos' = pos + 1
    /\ UNCHANGED <<full_text, lines, pc, fold_vars, clean_vars, pdf_pages,
                   vite_vars>>

\* a plausible slip: the rest of the marker line becomes the start of text
StartQuestionKeepsLine ==
    /\ InLoop
    /\ cleaned_line # <<>>
    /\ digit_regex_is_match(cleaned_line)
    /\ questions' = questions \o current_question
    /\ current_question' =
         <<[NewQuestion(question_number) EXCEPT !.text =
              trim(SubSeq(cleaned_line, SkipDigits(cleaned_line, 1) + 1,
                          Len(cleaned_line)))]>>
    /\ question_number' = question_number + 1
    /\ pos' = pos + 1
    /\ UNCHANGED <<full_text, lines, pc, fold_vars, clean_vars, pdf_pages,
                   vite_vars>>

\* a plausible slip: the counter is not incremented
StartQuestionNoIncrement ==
    /\ InLoop
    /\ cleaned_line # <<>>
    /\ digit_regex_is_match(cleaned_line)
    /\ questions' = questions \o current_question
    /\ current_question' = <<NewQuestion(question_number)>>
    /\ pos' = pos + 1
    /\ UNCHANGED <<full_text, lines, question_number, pc, fold_vars,
                   clean_vars, pdf_pages, vite_vars>>

\* if digit_regex.is_match(&cleaned_line) { ... }
StartQuestion ==
    /\ InLoop
    /\ cleaned_line # <<>>
    /\ digit_regex_is_match(cleaned_line)
    /\ questions' = questions \o current_question
    /\ current_question' = <<NewQuestion(question_number)>>
    /\ question_number' = question_number + 1
    /\ pos' = pos + 1
    /\ UNCHANGED <<full_text, lines, pc, fold_vars, clean_vars,
                   pdf_pages, vite_vars>>

\* else if let Some(question) { if choice_regex.is_match { split_at, insert } }
InsertChoice ==
    /\ InLoop
    /\ cleaned_line # <<>>
    /\ ~ digit_regex_is_match(cleaned_line)
    /\ current_question # <<>>
    /\ choice_regex_is_match(cleaned_line)
    /\ IF split_at_panics(cleaned_line, 2)
       THEN /\ pc' = "panic"
            /\ UNCHANGED <<pos, current_question>>
       ELSE LET parts == split_at(cleaned_line, 2)
                answer_letter == parts[1]
                text_without_answer == parts[2]
                question == current_question[1]
            IN  /\ current_question' =
                     <<[question EXCEPT !.choices =
                          HashMapInsert(@, trim(answer_letter),
                                        trim(text_without_answer))]>>
                /\ pos' = pos + 1
                /\ pc' = pc
    /\ UNCHANGED <<full_text, lines, questions, question_number, fold_vars,
                   clean_vars, pdf_pages, vite_vars>>

\* a plausible slip: a space is put between the lines of the text
AppendTextWithSeparator ==
    /\ InLoop
    /\ cleaned_line # <<>>
    /\ ~ digit_regex_is_match(cleaned_line)
    /\ current_question # <<>>
    /\ ~ choice_regex_is_match(cleaned_line)
    /\ current_question' =
         <<[current_question[1] EXCEPT !.text = @ \o <<" ">> \o cleaned_line]>>
    /\ pos' = pos + 1
    /\ UNCHANGED <<full_text, lines, questions, question_number, pc,
                   fold_vars, clean_vars, pdf_pages, vite_vars>>

\* a plausible slip: the question in progress is pushed before its boundary
AppendTextAndEmit ==
    /\ InLoop
    /\ cleaned_line # <<>>
    /\ ~ digit_regex_is_match(cleaned_line)
    /\ current_question # <<>>
    /\ ~ choice_regex_is_match(cleaned_line)
    /\ current_question' =
         <<[current_question[1] EXCEPT !.text = @ \o cleaned_line]>>
    /\ questions' = questions \o current_question'
    /\ pos' = pos + 1
    /\ UNCHANGED <<full_text, lines, question_number, pc, fold_vars,
                   clean_vars, pdf_pages, vite_vars>>

\* else { question.text.push_str(&cleaned_line); }
AppendText ==
    /\ InLoop
    /\ cleaned_line # <<>>
    /\ ~ digit_regex_is_match(cleaned_line)
    /\ current_question # <<>>
    /\ ~ choice_regex_is_match(cleaned_line)
    /\ current_question' =
         <<[current_question[1] EXCEPT !.text = @ \o cleaned_line]>>
    /\ pos' = pos + 1
    /\ UNCHANGED <<full_text, lines, questions, question_number, pc,
                   fold_vars, clean_vars, pdf_pages, vite_vars>>

\* a plausible slip: a line before the first marker opens a question
OrphanOpensQuestion ==
    /\ InLoop
    /\ cleaned_line # <<>>
    /\ ~ digit_regex_is_match(cleaned_line)
    /\ current_question = <<>>
    /\ current_question' =
         <<[NewQuestion(0) EXCEPT !.text = cleaned_line]>>
    /\ pos' = pos + 1
    /\ UNCHANGED <<full_text, lines, questions, question_number, pc,
                   fold_vars, clean_vars, pdf_pages, vite_vars>>

\* neither branch of the if / else if: the line is dropped
DiscardOrphan ==
    /\ InLoop
    /\ cleaned_line # <<>>
    /\ ~ digit_regex_is_match(cleaned_line)
    /\ current_question = <<>>
    /\ pos' = pos + 1
    /\ UNCHANGED <<full_text, lines, questions, current_question,
                   question_number, pc, fold_vars, clean_vars,
                   pdf_pages, vite_vars>>

\* a plausible slip: the last question is not pushed
EndOfInputNoPush ==
    /\ pc = "loop"
    /\ pos > Len(lines)
    /\ current_question' = <<>>
    /\ pc' = "returned"
    /\ UNCHANGED <<full_text, lines, pos, questions, question_number,
                   fold_vars, clean_vars, pdf_pages, vite_vars>>

\* if let Some(q) = current_question { questions.push(q); } Ok(questions)
EndOfInput ==
    /\ pc = "loop"
    /\ pos > Len(lines)
    /\ questions' = questions \o current_question
    /\ current_question' = <<>>
    /\ pc' = "returned"
    /\ UNCHANGED <<full_text, lines, pos, question_number, fold_vars,
                   clean_vars, pdf_pages, vite_vars>>

(***************************************************************************)
(* One call of parse_questions on any text of Texts.                       *)
(***************************************************************************)
Init ==
    /\ full_text \in Texts
    /\ lines = split_newline(full_text)
    /\ pos = 1
    /\ questions = <<>>
    /\ current_question = <<>>
    /\ question_number = 1
    /\ pc = IF PatternsCompile THEN "loop" ELSE "error"
    /\ all_questions = <<>>
    /\ total_questions_parsed = 0
    /\ page_number = 0
    /\ call_log = <<>>
    /\ pdf_pages = <<>>
    /\ vite_pc = "unused"
    /\ commands_run = <<>>
    /\ raw = <<>>
    /\ cleaned = <<>>

Next ==
    \/ SkipEmpty
    \/ StartQuestion
    \/ InsertChoice
    \/ AppendText
    \/ DiscardOrphan
    \/ EndOfInput

Spec == Init /\ [][Next]_vars

(***************************************************************************)
(* The fold of async_main: parse_questions is called once per text and the *)
(* results are concatenated.                                               *)
(***************************************************************************)
\* a plausible slip: the counter is carried over from the previous call
parse_questions_keep_counter ==
    /\ pc = "idle"
    /\ page_number < MaxCalls
    /\ \E text \in CallTexts : Entry(text, question_number)
    /\ page_number' = page_number + 1
    /\ UNCHANGED <<all_questions, total_questions_parsed, call_log,
                   clean_vars, pdf_pages, vite_vars>>

\* let questions = parse_questions(text)?;   (the call, lines 134-141)
parse_questions ==
    /\ pc = "idle"
    /\ page_number < MaxCalls
    /\ \E text \in CallTexts : Entry(text, 1)
    /\ page_number' = page_number + 1
    /\ UNCHANGED <<all_questions, total_questions_parsed, call_log,
                   clean_vars, pdf_pages, vite_vars>>

\* total_questions_parsed_acc += questions.len();
\* all_questions_acc.extend(questions);
FoldAccumulate ==
    /\ pc = "returned"
    /\ total_questions_parsed' = total_questions_parsed + Len(questions)
    /\ all_questions' = all_questions \o questions
    /\ call_log' = Append(call_log, <<full_text, questions>>)
    /\ pc' = "idle"
    /\ UNCHANGED <<full_text, lines, pos, questions, current_question,
                   question_number, page_number, clean_vars,
                   pdf_pages, vite_vars>>

InitCalls ==
    /\ full_text = <<>>
    /\ lines = <<>>
    /\ pos = 1
    /\ questions = <<>>
    /\ current_question = <<>>
    /\ question_number = 1
    /\ pc = "idle"
    /\ all_questions = <<>>
    /\ total_questions_parsed = 0
    /\ page_number = 0
    /\ call_log = <<>>
    /\ pdf_pages = <<>>
    /\ vite_pc = "unused"
    /\ commands_run = <<>>
    /\ raw = <<>>
    /\ cleaned = <<>>

NextCalls ==
    \/ parse_questions
    \/ FoldAccumulate
    \/ SkipEmpty
    \/ StartQuestion
    \/ InsertChoice
    \/ AppendText
    \/ DiscardOrphan
    \/ EndOfInput

SpecCalls == InitCalls /\ [][NextCalls]_vars

(***************************************************************************)
(* clean_text applied to a line, then to its own result.                   *)
(***************************************************************************)
\* clean_text(raw)
CallCleanText ==
    /\ cleaned = <<>>
    /\ cleaned' = <<clean_text(raw)>>
    /\ UNCHANGED <<raw, parser_vars, fold_vars, pdf_pages, vite_vars>>

\* clean_text of the line clean_text returned
CallCleanTextAgain ==
    /\ Len(cleaned) = 1
    /\ cleaned' = Append(cleaned, clean_text(cleaned[1]))
    /\ UNCHANGED <<raw, parser_vars, fold_vars, pdf_pages, vite_vars>>

InitClean ==
    /\ raw \in CleanInputs
    /\ cleaned = <<>>
    /\ full_text = <<>>
    /\ lines = <<>>
    /\ pos = 1
    /\ questions = <<>>
    /\ current_question = <<>>
    /\ question_number = 1
    /\ pc = "idle"
    /\ all_questions = <<>>
    /\ total_questions_parsed = 0
    /\ page_number = 0
    /\ call_log = <<>>
    /\ pdf_pages = <<>>
    /\ vite_pc = "unused"
    /\ commands_run = <<>>

NextClean == CallCleanText \/ CallCleanTextAgain

SpecClean == InitClean /\ [][NextClean]_vars

(***************************************************************************)
(* Vocabulary of the properties: the lines of the call, normalized, and    *)
(* the span of lines of each question.                                     *)
(***************************************************************************)
Letters == {"A", "B", "C", "D"}

\* line k of the call after normalization
Norm(k) == clean_text(lines[k])

\* line k is a question-start line: digits, then a period
IsStart(k) == digit_regex_is_match(Norm(k))

\* the question-start lines among the first n lines
StartsUpTo(n) == { k \in 1..n : IsStart(k) }

\* the index of the i-th question-start line
KthStart(i) ==
    CHOOSE k \in StartsUpTo(Len(lines)) : Cardinality(StartsUpTo(k)) = i

\* the lines of the i-th question after its start line: up to the next
\* question-start line or the end of the input
Span(i) ==
    { k \in (KthStart(i) + 1)..Len(lines) : Cardinality(StartsUpTo(k)) = i }

\* line k is a choice-marker line with label L
IsChoiceOf(k, L) == Len(Norm(k)) >= 2 /\ Norm(k)[1] = L /\ Norm(k)[2] = "."

IsChoice(k) == \E L \in Letters : IsChoiceOf(k, L)

\* the questions created so far, the one in progress last
Created == questions \o current_question

Returned == pc = "returned"

IsPrefix(p, s) == Len(p) <= Len(s) /\ SubSeq(s, 1, Len(p)) = p

RECURSIVE DecimalValue(_)
\* the number a string of decimal digits denotes
DecimalValue(s) ==
    IF s = <<>> THEN 0
    ELSE 10 * DecimalValue(SubSeq(s, 1, Len(s) - 1))
         + (CHOOSE d \in 0..9 : DigitChars[d + 1] = s[Len(s)])

\* s is the decimal text of the positive number n
IsDecimalOf(s, n) ==
    /\ s # <<>>
    /\ \A j \in 1..Len(s) : IsDigit(s[j])
    /\ s[1] # "0"
    /\ DecimalValue(s) = n

(***************************************************************************)
(* C1: one call returns as many Questions as its input has lines that,     *)
(* normalized, start with digits followed by a period: while the loop      *)
(* runs, the questions created so far are as many as the question-start    *)
(* lines processed; and a question whose span has no choice line is        *)
(* returned with an empty choices map.                                     *)
(***************************************************************************)
C1_OneQuestionPerStartLine ==
    /\ pc = "loop" =>
         Len(Created) = Cardinality(StartsUpTo(pos - 1))
    /\ Returned =>
         /\ Len(questions) = Cardinality(StartsUpTo(Len(lines)))
         /\ \A i \in 1..Len(questions) :
              (\A k \in Span(i) : ~ IsChoice(k)) =>
                  questions[i].choices = EmptyMap

\* two questions returned from three lines, one of them without choices
C1_Witness ==
    /\ Returned
    /\ Len(lines) = 3
    /\ Len(questions) = 2
    /\ questions[2].choices = EmptyMap
    /\ questions[1].choices # EmptyMap

(***************************************************************************)
(* C2: the i-th Question of a call has the decimal text of i as number,    *)
(* the question in progress included.                                      *)
(***************************************************************************)
C2_NumbersAreOneToN ==
    \A i \in 1..Len(Created) : IsDecimalOf(Created[i].number, i)

\* a call that returned more than ten questions: two-digit numbers
C2_Witness ==
    /\ Returned
    /\ Len(questions) > 10
    /\ questions[11].number = <<"1", "1">>

(***************************************************************************)
(* C3 (as claimed): every key of every choices map is one of the letters   *)
(* A, B, C, D alone.                                                       *)
(***************************************************************************)
C3_ChoiceKeysAreLetters ==
    \A i \in 1..Len(Created) :
        \A key \in DOMAIN Created[i].choices :
            \E L \in Letters : key = <<L>>

(***************************************************************************)
(* C4 (as claimed): the text after the number prefix of a question-start   *)
(* line is the beginning of the text of its Question.                      *)
(***************************************************************************)
\* what follows the digits and the period of a question-start line, trimmed
AfterNumber(s) == trim(SubSeq(s, SkipDigits(s, 1) + 1, Len(s)))

C4_StartLineTextKept ==
    Returned =>
        \A i \in 1..Len(questions) :
            IsPrefix(AfterNumber(Norm(KthStart(i))), questions[i].text)

(***************************************************************************)
(* C5 (as claimed): clean_text is idempotent on every line.                *)
(***************************************************************************)
C5_CleanTextIdempotent ==
    Len(cleaned) = 2 => cleaned[2] = cleaned[1]

\* a line-break tag starts at index i of s
IsTagAt(s, i) == BrMatchEnd(s, i) # 0

\* every occurrence of the characters <br in s is the start of a complete
\* line-break tag: no tag is embedded in the characters of another
EveryBrOpensTag(s) ==
    \A i \in 1..Len(s) :
        (i + 2 <= Len(s) /\ s[i] = "<" /\ s[i + 1] = "b" /\ s[i + 2] = "r")
            => IsTagAt(s, i)

(***************************************************************************)
(* C5 (amended): clean_text is idempotent on every line in which each      *)
(* occurrence of the characters <br starts a complete line-break tag.      *)
(***************************************************************************)
C5_IdempotentWithoutEmbeddedTag ==
    (Len(cleaned) = 2 /\ EveryBrOpensTag(raw)) => cleaned[2] = cleaned[1]

\* a line with two tags and whitespace around them, normalized twice
C5_Witness ==
    /\ Len(cleaned) = 2
    /\ EveryBrOpensTag(raw)
    /\ Cardinality({ i \in 1..Len(raw) : IsTagAt(raw, i) }) = 2
    /\ IsWhitespace(raw[1])
    /\ cleaned[1] # <<>>
    /\ cleaned[1] # raw

(***************************************************************************)
(* C6: when several choice-marker lines of one question's span carry the   *)
(* same label, the returned Question has exactly one entry for the label,  *)
(* whose value is the trimmed remainder of the last of these lines; a      *)
(* label no line of the span carries has no entry.                         *)
(***************************************************************************)
\* the choice-marker lines with label L in the span of question i
ChoiceLines(i, L) == { k \in Span(i) : IsChoiceOf(k, L) }

Last(S) == CHOOSE k \in S : \A j \in S : j <= k

\* the keys of question q that belong to label L: they begin with it
KeysOf(q, L) == { key \in DOMAIN q.choices : key # <<>> /\ key[1] = L }

\* what follows the label and the period on a choice-marker line, trimmed
AfterLabel(s) == trim(SubSeq(s, 3, Len(s)))

C6_LastChoiceWins ==
    Returned =>
        \A i \in 1..Len(questions) : \A L \in Letters :
            IF ChoiceLines(i, L) = {}
            THEN KeysOf(questions[i], L) = {}
            ELSE /\ Cardinality(KeysOf(questions[i], L)) = 1
                 /\ \A key \in KeysOf(questions[i], L) :
                      questions[i].choices[key] =
                          AfterLabel(Norm(Last(ChoiceLines(i, L))))

\* a question whose span has two lines of label A with different values
C6_Witness ==
    /\ Returned
    /\ Len(questions) = 1
    /\ \E k1, k2 \in ChoiceLines(1, "A") :
          k1 < k2 /\ AfterLabel(Norm(k1)) # AfterLabel(Norm(k2))

(***************************************************************************)
(* C7: a non-empty line before the first question-start line changes no    *)
(* parser state and creates no Question, and nothing of it reaches a       *)
(* returned Question: the text of a Question is the concatenation of the   *)
(* continuation lines of its own span and its choices come from the        *)
(* choice-marker lines of its own span.                                    *)
(***************************************************************************)
RECURSIVE SpanTextFrom(_, _)
\* the normalized continuation lines of question i from line k on
SpanTextFrom(i, k) ==
    IF k > Len(lines) \/ k \notin Span(i) THEN <<>>
    ELSE (IF IsChoice(k) THEN <<>> ELSE Norm(k)) \o SpanTextFrom(i, k + 1)

SpanText(i) == SpanTextFrom(i, KthStart(i) + 1)

\* the line taken next is a non-empty line before the first question start
BeforeFirstStart ==
    /\ InLoop
    /\ StartsUpTo(pos) = {}
    /\ Norm(pos) # <<>>

C7_LinesBeforeFirstStartDiscarded ==
    /\ [][BeforeFirstStart =>
            /\ questions' = questions
            /\ current_question' = current_question
            /\ question_number' = question_number
            /\ pc' = pc]_vars
    /\ [](BeforeFirstStart => Created = <<>>)
    /\ [](Returned =>
            \A i \in 1..Len(questions) :
                /\ questions[i].text = SpanText(i)
                /\ \A key \in DOMAIN questions[i].choices :
                     \E k \in Span(i) : IsChoice(k) /\ IsPrefix(key, Norm(k)))

\* a choice-like line and a plain line, then the first question start
C7_Witness ==
    /\ Returned
    /\ Len(lines) = 3
    /\ IsChoice(1)
    /\ Norm(2) # <<>> /\ ~ IsChoice(2) /\ ~ IsStart(2)
    /\ IsStart(3)
    /\ Len(questions) = 1
    /\ questions[1].text = <<>>
    /\ questions[1].choices = EmptyMap

(***************************************************************************)
(* C8: the output changes only by appending the question in progress, and  *)
(* only at its boundary (the line taken next is a question-start line, or  *)
(* the input is at its end); the question in progress is not in the        *)
(* output, no Question is in the output twice, and the Questions already   *)
(* in the output never change.                                             *)
(***************************************************************************)
AtBoundary ==
    pc = "loop" /\ (pos > Len(lines) \/ (Norm(pos) # <<>> /\ IsStart(pos)))

C8_EmittedOnceAtBoundary ==
    /\ [][\/ questions' = questions
          \/ /\ current_question # <<>>
             /\ AtBoundary
             /\ questions' = Append(questions, current_question[1])]_vars
    /\ [](\A i \in 1..Len(questions) :
             /\ current_question # <<>> => questions[i] # current_question[1]
             /\ \A j \in 1..Len(questions) :
                  i # j => questions[i] # questions[j])

\* two questions in the output, the first one grown by a continuation line
\* before the question-start line that is its boundary
C8_Witness ==
    /\ Returned
    /\ Len(questions) = 2
    /\ questions[1].text # <<>>
    /\ IsStart(3)

(***************************************************************************)
(* C9: for every input text parse_questions runs to Ok(questions): it is   *)
(* never in an error or a panic, every step consumes one line or returns   *)
(* (so the call returns after at most Len(lines) + 1 steps), it returns    *)
(* only when every line was consumed, and the empty text gives no          *)
(* Question.                                                               *)
(***************************************************************************)
C9_AlwaysReturnsOk ==
    /\ [](pc \in {"loop", "returned"})
    /\ [](pos <= Len(lines) + 1)
    /\ [](Returned => pos = Len(lines) + 1)
    /\ [](Returned /\ full_text = <<>> => questions = <<>>)
    /\ [][\/ pc' = "loop" /\ pos' = pos + 1
          \/ pc' = "returned" /\ pos = Len(lines) + 1]_vars

\* a call that returned after a bare choice marker, a one-character line and
\* a line whose second character is longer than one byte
C9_Witness ==
    /\ Returned
    /\ Len(questions) = 1
    /\ \E k \in Span(1) : Norm(k) = <<"B", ".">>
    /\ \E k \in Span(1) : Norm(k) \in { <<"A">>, <<"A", "é">> }

\* the empty text returned no Question
C9_WitnessEmpty == Returned /\ full_text = <<>> /\ questions = <<>>

(***************************************************************************)
(* C10: every call starts numbering at 1 and depends on its own text only: *)
(* two calls on the same text return the same Questions, the accumulated   *)
(* sequence is the concatenation of the results, and the number "1" occurs *)
(* in it once per finished call whose text has a question-start line, so   *)
(* more than once when two such texts were parsed.                         *)
(***************************************************************************)
\* text has a line that, normalized, starts a question
HasStartLine(text) ==
    \E k \in 1..Len(split_newline(text)) :
        digit_regex_is_match(clean_text(split_newline(text)[k]))

\* the finished calls whose text has a question-start line
CallsWithQuestions ==
    { c \in 1..Len(call_log) : HasStartLine(call_log[c][1]) }

\* the places of the accumulated sequence that hold number "1"
OnesInAll ==
    { k \in 1..Len(all_questions) : all_questions[k].number = <<"1">> }

C10_CallsIndependentNumberingRestarts ==
    /\ \A c, d \in 1..Len(call_log) :
          call_log[c][1] = call_log[d][1] => call_log[c][2] = call_log[d][2]
    /\ all_questions = Flatten([c \in 1..Len(call_log) |-> call_log[c][2]])
    /\ total_questions_parsed = Len(all_questions)
    /\ Cardinality(OnesInAll) = Cardinality(CallsWithQuestions)
    /\ Cardinality(CallsWithQuestions) >= 2 => Cardinality(OnesInAll) > 1

\* two different texts with question-start lines parsed and concatenated
C10_Witness ==
    /\ pc = "idle"
    /\ Len(call_log) = 2
    /\ call_log[1][1] # call_log[2][1]
    /\ Cardinality(CallsWithQuestions) = 2
    /\ Len(all_questions) >= 3
    /\ Cardinality(OnesInAll) = 2

(***************************************************************************)
(* C11: what clean_text returns has no whitespace at its start or its end, *)
(* and it is the empty string when the argument is made of whitespace and  *)
(* line-break tags only (the empty and the whitespace-only argument        *)
(* included).                                                              *)
(***************************************************************************)
RECURSIVE OnlyTagsAndWhitespaceFrom(_, _)
\* s from index i on is a sequence of whitespace characters and tags
OnlyTagsAndWhitespaceFrom(s, i) ==
    IF i > Len(s) THEN TRUE
    ELSE IF IsWhitespace(s[i]) THEN OnlyTagsAndWhitespaceFrom(s, i + 1)
    ELSE IF IsTagAt(s, i)
         THEN OnlyTagsAndWhitespaceFrom(s, BrMatchEnd(s, i) + 1)
    ELSE FALSE

OnlyTagsAndWhitespace(s) == OnlyTagsAndWhitespaceFrom(s, 1)

NoOuterWhitespace(s) ==
    s # <<>> => (~ IsWhitespace(s[1]) /\ ~ IsWhitespace(s[Len(s)]))

C11_CleanTextTrimmed ==
    /\ \A c \in 1..Len(cleaned) : NoOuterWhitespace(cleaned[c])
    /\ (Len(cleaned) >= 1 /\ OnlyTagsAndWhitespace(raw)) => cleaned[1] = <<>>
    /\ (Len(cleaned) >= 1 /\ cleaned[1] = <<>>) => OnlyTagsAndWhitespace(raw)

\* a line of text between whitespace and tags, and a line of tags only
C11_Witness ==
    /\ Len(cleaned) = 2
    /\ OnlyTagsAndWhitespace(raw)
    /\ \E i \in 1..Len(raw) : IsTagAt(raw, i)
    /\ \E i \in 1..Len(raw) : IsWhitespace(raw[i])
    /\ cleaned = << <<>>, <<>> >>

\* text with a tag and whitespace at both ends, returned without them
C11_WitnessText ==
    /\ Len(cleaned) >= 1
    /\ Len(raw) >= 6
    /\ IsWhitespace(raw[1])
    /\ IsTagAt(raw, Len(raw) - 3)
    /\ cleaned[1] = <<"x">>

(***************************************************************************)
(* C12: the correct-answer field of every Question, in progress or in the  *)
(* output, is None in every state.                                         *)
(***************************************************************************)
C12_CorrectAnswerNeverSet ==
    /\ \A i \in 1..Len(Created) : Created[i].correct_answers = "None"
    /\ \A i \in 1..Len(all_questions) :
          all_questions[i].correct_answers = "None"

\* a returned question that took a choice line and a continuation line
C12_Witness ==
    /\ Returned
    /\ Len(questions) = 1
    /\ questions[1].text # <<>>
    /\ questions[1].choices # EmptyMap
    /\ questions[1].correct_answers = "None"

(***************************************************************************)
(* C13: a question-start line appends the question in progress, if any, to *)
(* the output, opens a Question with the decimal text of the counter as    *)
(* number, empty text and empty choices, and adds one to the counter; the  *)
(* marker line adds nothing to the text, so a choice-like line followed by *)
(* a question-start line with text gives one Question numbered 1 with      *)
(* empty text and empty choices.                                           *)
(***************************************************************************)
\* the line taken next is a question-start line
AtStartLine == InLoop /\ Norm(pos) # <<>> /\ IsStart(pos)

C13_StartLineOpensEmptyQuestion ==
    /\ [][AtStartLine =>
            /\ questions' = questions \o current_question
            /\ Len(current_question') = 1
            /\ IsDecimalOf(current_question'[1].number, question_number)
            /\ current_question'[1].text = <<>>
            /\ current_question'[1].choices = EmptyMap
            /\ question_number' = question_number + 1]_vars
    /\ []((Returned /\ Len(lines) = 2 /\ IsChoice(1) /\ IsStart(2)) =>
            /\ Len(questions) = 1
            /\ questions[1].number = <<"1">>
            /\ questions[1].text = <<>>
            /\ questions[1].choices = EmptyMap)

\* "A. x" then "1. Q" returned one empty Question numbered 1
C13_Witness ==
    /\ Returned
    /\ lines = << <<"A", ".", " ", "x">>, <<"1", ".", " ", "Q">> >>
    /\ Len(questions) = 1
    /\ questions[1].text = <<>>

(***************************************************************************)
(* C15: a line that is empty after normalization changes neither the       *)
(* question in progress, nor the counter, nor the output, whether or not a *)
(* question is in progress.                                                *)
(***************************************************************************)
AtEmptyLine == InLoop /\ Norm(pos) = <<>>

C15_EmptyLineChangesNothing ==
    [][AtEmptyLine =>
         /\ current_question' = current_question
         /\ question_number' = question_number
         /\ questions' = questions
         /\ pc' = pc]_vars

\* a line of a tag only has just been skipped while a question with text is
\* in progress
C15_Witness ==
    /\ pc = "loop"
    /\ pos = 4
    /\ lines[3] # <<>>
    /\ Norm(3) = <<>>
    /\ current_question # <<>>
    /\ current_question[1].text # <<>>

(***************************************************************************)
(* C16: while a question is in progress, a choice-marker line changes only *)
(* the choices of the question in progress (one entry is set to the        *)
(* trimmed remainder of the line, the others stay), and any other          *)
(* non-empty line that is no question-start line changes only its text, by *)
(* appending the normalized line with no separator; neither changes the    *)
(* number of the question, the counter or the output.                      *)
(***************************************************************************)
\* the line taken next belongs to the question in progress
AtLineOfQuestion ==
    InLoop /\ current_question # <<>> /\ Norm(pos) # <<>> /\ ~ IsStart(pos)

C16_ChoiceAndTextFrames ==
    [][AtLineOfQuestion =>
         /\ Len(current_question') = 1
         /\ current_question'[1].number = current_question[1].number
         /\ current_question'[1].correct_answers =
                current_question[1].correct_answers
         /\ question_number' = question_number
         /\ questions' = questions
         /\ IF IsChoice(pos)
            THEN /\ current_question'[1].text = current_question[1].text
                 /\ \E key \in DOMAIN current_question'[1].choices :
                      /\ current_question'[1].choices[key] =
                            AfterLabel(Norm(pos))
                      /\ DOMAIN current_question'[1].choices =
                            DOMAIN current_question[1].choices \cup {key}
                      /\ \A other \in DOMAIN current_question[1].choices :
                            other # key =>
                              current_question'[1].choices[other] =
                                  current_question[1].choices[other]
            ELSE /\ current_question'[1].text =
                        current_question[1].text \o Norm(pos)
                 /\ current_question'[1].choices =
                        current_question[1].choices]_vars

\* a question in progress that took a continuation line, then a choice line
C16_Witness ==
    /\ pc = "loop"
    /\ pos = 4
    /\ IsStart(1) /\ ~ IsChoice(2) /\ IsChoice(3)
    /\ current_question # <<>>
    /\ current_question[1].text = Norm(2)
    /\ current_question[1].text # <<>>
    /\ current_question[1].choices # EmptyMap

\* two continuation lines appended with nothing between them
C16_WitnessTwoLines ==
    /\ pc = "loop"
    /\ pos = 4
    /\ current_question # <<>>
    /\ Norm(2) # <<>> /\ Norm(3) # <<>>
    /\ current_question[1].text = Norm(2) \o Norm(3)

(***************************************************************************)
(* C17: in every state of a call the counter minus one is the number of    *)
(* Questions in the output plus one if a question is in progress, and the  *)
(* number of the question in progress is the decimal text of the counter   *)
(* minus one.                                                              *)
(***************************************************************************)
C17_CounterInvariant ==
    /\ question_number - 1 = Len(questions) + Len(current_question)
    /\ current_question # <<>> =>
          IsDecimalOf(current_question[1].number, question_number - 1)

\* a second question in progress after the first reached the output
C17_Witness ==
    /\ pc = "loop"
    /\ Len(questions) = 1
    /\ current_question # <<>>
    /\ current_question[1].number = <<"2">>

(***************************************************************************)
(* async_main: the text of the document is cut by str::lines and every     *)
(* piece is handed to parse_questions.                                     *)
(***************************************************************************)
\* a line without the carriage return that ends it
StripCarriageReturn(s) ==
    IF s # <<>> /\ s[Len(s)] = "\r" THEN SubSeq(s, 1, Len(s) - 1) ELSE s

\* str::lines: the pieces that a newline ends lose it and a carriage return
\* before it; what follows the last newline is a line unless it is empty
str_lines(s) ==
    LET pieces == split_newline(s)
        n == Len(pieces)
        ended == [k \in 1..(n - 1) |-> StripCarriageReturn(pieces[k])]
    IN  IF pieces[n] = <<>> THEN ended ELSE Append(ended, pieces[n])

\* the lines the documents of the model are made of
DocLines ==
    { <<"1", ".", " ", "Q">>, <<"2", ".", " ", "R", "\r">>,
      <<"A", ".", " ", "x">>, <<"t">>, <<>> }

\* the texts extract_text returns
Documents == { JoinLines(ls) : ls \in SeqsUpTo(DocLines, MaxDocLines) }

\* pdf_pages.lines().enumerate(): the text handed to each call
PageTexts == str_lines(pdf_pages)

\* let questions = parse_questions(text)?; for the next item of the fold
ParsePage ==
    /\ pc = "idle"
    /\ page_number < Len(PageTexts)
    /\ Entry(PageTexts[page_number + 1], 1)
    /\ page_number' = page_number + 1
    /\ UNCHANGED <<all_questions, total_questions_parsed, call_log,
                   clean_vars, pdf_pages, vite_vars>>

InitMain ==
    /\ pdf_pages \in Documents
    /\ full_text = <<>>
    /\ lines = <<>>
    /\ pos = 1
    /\ questions = <<>>
    /\ current_question = <<>>
    /\ question_number = 1
    /\ pc = "idle"
    /\ all_questions = <<>>
    /\ total_questions_parsed = 0
    /\ page_number = 0
    /\ call_log = <<>>
    /\ raw = <<>>
    /\ cleaned = <<>>
    /\ vite_pc = "unused"
    /\ commands_run = <<>>

\* The choice and the continuation branch are no disjuncts: every text the
\* fold hands over is one line, so no question is in progress when a line
\* is taken (MainNoQuestionInProgress) and neither branch is ever enabled.
NextMain ==
    \/ ParsePage
    \/ FoldAccumulate
    \/ SkipEmpty
    \/ StartQuestion
    \/ DiscardOrphan
    \/ EndOfInput

SpecMain == InitMain /\ [][NextMain]_vars

\* every call of the fold gets one line, and takes it with no question in
\* progress
MainNoQuestionInProgress ==
    /\ pc # "idle" => Len(lines) = 1
    /\ InLoop => current_question = <<>>

(***************************************************************************)
(* C14 (as claimed): each call gets a whole block of the document, so the  *)
(* lines that follow a question-start line are processed by the call that  *)
(* opened the question, and the body text and the choices of every         *)
(* question of the document are in the corresponding Question of the       *)
(* concatenated output.                                                    *)
(***************************************************************************)
\* line k of the document, normalized
DocNorm(k) == clean_text(split_newline(pdf_pages)[k])

DocIsStart(k) == digit_regex_is_match(DocNorm(k))

DocIsChoice(k) ==
    Len(DocNorm(k)) >= 2 /\ DocNorm(k)[1] \in Letters /\ DocNorm(k)[2] = "."

DocStartsUpTo(n) == { k \in 1..n : DocIsStart(k) }

DocLen == Len(split_newline(pdf_pages))

\* the lines of the document that belong to its i-th question
DocSpan(i) ==
    { k \in 1..DocLen :
        Cardinality(DocStartsUpTo(k)) = i /\ ~ DocIsStart(k) }

RECURSIVE DocTextFrom(_, _)
\* the continuation lines of the i-th question of the document from line k
DocTextFrom(i, k) ==
    IF k > DocLen THEN <<>>
    ELSE (IF k \in DocSpan(i) /\ ~ DocIsChoice(k) THEN DocNorm(k) ELSE <<>>)
         \o DocTextFrom(i, k + 1)

\* the fold has taken every item
MainDone == pc = "idle" /\ page_number = Len(PageTexts)

C14_QuestionsKeepTheirLines ==
    /\ (pc = "loop" /\ pos = 1) =>
          \A k \in 1..DocLen :
              (DocIsStart(k) /\ lines[1] = split_newline(pdf_pages)[k]
                 /\ k < DocLen /\ ~ DocIsStart(k + 1))
                  => Len(lines) >= 2
    /\ MainDone =>
          /\ Len(all_questions) = Cardinality(DocStartsUpTo(DocLen))
          /\ \A i \in 1..Len(all_questions) :
                /\ all_questions[i].text = DocTextFrom(i, 1)
                /\ (\E k \in DocSpan(i) : DocIsChoice(k)) =>
                       all_questions[i].choices # EmptyMap

(***************************************************************************)
(* The scaffolding program (src/src/vite.rs): main runs its commands one   *)
(* after the other; every command ends in one of three ways.               *)
(***************************************************************************)
\* the commands of main in program order
ViteCommands ==
    << "check_node", "install_node", "check_pnpm", "install_pnpm",
       "check_vite", "install_vite", "create_vite", "add_dev_dependencies",
       "add_packages", "tailwind_init", "shacdn_init", "eslint_init",
       "prettier_init" >>

\* Command::output(): Err, or a status that is a success or not
Outcomes == {"spawn_error", "exit_failure", "exit_success"}

CheckCommands == {"check_node", "check_pnpm", "check_vite"}
InstallCommands == {"install_node", "install_pnpm", "install_vite"}
CreateCommands == {"create_vite"}
DependencyCommands == {"add_dev_dependencies", "add_packages"}
ConfigureCommands ==
    {"tailwind_init", "shacdn_init", "eslint_init", "prettier_init"}

\* the place of a command in the program
Rank(cmd) == CHOOSE k \in 1..Len(ViteCommands) : ViteCommands[k] = cmd

\* what main does after the command of place k ended well: the next command,
\* or Ok(()) after the last
After(k) == IF k < Len(ViteCommands) THEN ViteCommands[k + 1] ELSE "ok"

\* a plausible slip: the exit status is not looked at
run_command_ignores_status(outcome) ==
    IF outcome = "spawn_error" THEN "Err" ELSE "Ok"

\* fn run_command: Err when output() fails or the status is no success
run_command(outcome) == IF outcome = "exit_success" THEN "Ok" ELSE "Err"

\* run_command(...)? on the command main is at
RunCurrentCommand ==
    \E outcome \in Outcomes :
        /\ commands_run' = Append(commands_run, <<vite_pc, outcome>>)
        /\ vite_pc' = IF run_command(outcome) = "Ok"
                      THEN After(Rank(vite_pc)) ELSE "error"

\* check_and_install: Command::new("command").arg("-v").arg(package_name)
\* .output()?.status.success()
CheckInstalled ==
    /\ vite_pc \in CheckCommands
    /\ \E outcome \in Outcomes :
         /\ commands_run' = Append(commands_run, <<vite_pc, outcome>>)
         /\ vite_pc' = CASE outcome = "spawn_error" -> "error"
                         [] outcome = "exit_failure" -> After(Rank(vite_pc))
                         [] outcome = "exit_success" ->
                                After(Rank(vite_pc) + 1)
    /\ UNCHANGED <<parser_vars, fold_vars, clean_vars, pdf_pages>>

\* check_and_install: run_command(&mut install_cmd)?
RunInstall ==
    /\ vite_pc \in InstallCommands
    /\ RunCurrentCommand
    /\ UNCHANGED <<parser_vars, fold_vars, clean_vars, pdf_pages>>

\* fn create_react_project
create_react_project ==
    /\ vite_pc \in CreateCommands
    /\ RunCurrentCommand
    /\ UNCHANGED <<parser_vars, fold_vars, clean_vars, pdf_pages>>

\* fn install_dependencies: one of its two commands
install_dependencies ==
    /\ vite_pc \in DependencyCommands
    /\ RunCurrentCommand
    /\ UNCHANGED <<parser_vars, fold_vars, clean_vars, pdf_pages>>

\* fn configure_tools: one of its four commands
configure_tools ==
    /\ vite_pc \in ConfigureCommands
    /\ RunCurrentCommand
    /\ UNCHANGED <<parser_vars, fold_vars, clean_vars, pdf_pages>>

InitVite ==
    /\ vite_pc = "check_node"
    /\ commands_run = <<>>
    /\ pdf_pages = <<>>
    /\ full_text = <<>>
    /\ lines = <<>>
    /\ pos = 1
    /\ questions = <<>>
    /\ current_question = <<>>
    /\ question_number = 1
    /\ pc = "idle"
    /\ all_questions = <<>>
    /\ total_questions_parsed = 0
    /\ page_number = 0
    /\ call_log = <<>>
    /\ raw = <<>>
    /\ cleaned = <<>>

NextVite ==
    \/ CheckInstalled
    \/ RunInstall
    \/ create_react_project
    \/ install_dependencies
    \/ configure_tools

SpecVite == InitVite /\ [][NextVite]_vars

(***************************************************************************)
(* Vocabulary of C18: the steps of main and what the history says of them. *)
(***************************************************************************)
\* the steps of main: three check/install steps, create project, install
\* dependencies, configure tools
StepCommands ==
    << {"check_node", "install_node"}, {"check_pnpm", "install_pnpm"},
       {"check_vite", "install_vite"}, CreateCommands, DependencyCommands,
       ConfigureCommands >>

StepOf(cmd) == CHOOSE t \in 1..Len(StepCommands) : cmd \in StepCommands[t]

\* the first n commands run ended command cmd with outcome o
RanWith(n, cmd, o) == \E i \in 1..n : commands_run[i] = <<cmd, o>>

\* step t succeeded within the first n commands run: the package was found,
\* or it was not found and its install command succeeded; for the other
\* steps, every command of the step succeeded
StepSucceeded(t, n) ==
    IF \E cmd \in StepCommands[t] : cmd \in CheckCommands
    THEN \E chk \in StepCommands[t] \cap CheckCommands :
            \/ RanWith(n, chk, "exit_success")
            \/ /\ RanWith(n, chk, "exit_failure")
               /\ \E ins \in StepCommands[t] \cap InstallCommands :
                     RanWith(n, ins, "exit_success")
    ELSE \A cmd \in StepCommands[t] : RanWith(n, cmd, "exit_success")

\* the commands run so far, in program order, each step after the success
\* of every earlier step, an install command right after its check did not
\* find the package
RunInOrder ==
    /\ \A i, j \in 1..Len(commands_run) :
          i < j => Rank(commands_run[i][1]) < Rank(commands_run[j][1])
    /\ \A i \in 1..Len(commands_run) :
          /\ \A t \in 1..(StepOf(commands_run[i][1]) - 1) :
                StepSucceeded(t, i - 1)
          /\ commands_run[i][1] \in InstallCommands =>
                /\ i > 1
                /\ commands_run[i - 1] =
                      <<ViteCommands[Rank(commands_run[i][1]) - 1],
                        "exit_failure">>
    /\ vite_pc = "ok" =>
          \A t \in 1..Len(StepCommands) :
              StepSucceeded(t, Len(commands_run))
    /\ vite_pc \notin {"ok", "error"} =>
          \A t \in 1..(StepOf(vite_pc) - 1) :
              StepSucceeded(t, Len(commands_run))

\* entry e of the history is a command that did not start or did not exit
\* successfully
Unsuccessful(e) == e[2] # "exit_success"

\* entry e of the history fails its step: the command did not start, or it
\* is no check command and did not exit successfully
FailsStep(e) ==
    \/ e[2] = "spawn_error"
    \/ e[2] = "exit_failure" /\ e[1] \notin CheckCommands

(***************************************************************************)
(* C18 (as claimed): the commands run in the fixed order, a step starts    *)
(* only after every earlier step succeeded, and the first command that     *)
(* fails to start or exits unsuccessfully makes main return an error, no   *)
(* command running after it.                                               *)
(***************************************************************************)
C18_AnyUnsuccessfulCommandStopsMain ==
    /\ RunInOrder
    /\ \A i \in 1..Len(commands_run) :
          Unsuccessful(commands_run[i]) =>
              (i = Len(commands_run) /\ vite_pc = "error")
    /\ vite_pc = "error" =>
          (commands_run # <<>>
             /\ Unsuccessful(commands_run[Len(commands_run)]))

(***************************************************************************)
(* C18 (amended): the same, a step failing when one of its commands fails  *)
(* to start or when its install or run command exits unsuccessfully; a     *)
(* check command that exits unsuccessfully fails nothing: the install      *)
(* command of its step runs next.                                          *)
(***************************************************************************)
C18_FailedStepStopsMain ==
    /\ RunInOrder
    /\ \A i \in 1..Len(commands_run) :
          /\ FailsStep(commands_run[i]) =>
                (i = Len(commands_run) /\ vite_pc = "error")
          /\ (commands_run[i][1] \in CheckCommands
                /\ commands_run[i][2] = "exit_failure") =>
                IF i = Len(commands_run)
                THEN vite_pc = After(Rank(commands_run[i][1]))
                ELSE commands_run[i + 1][1] = After(Rank(commands_run[i][1]))
    /\ vite_pc = "error" =>
          (commands_run # <<>> /\ FailsStep(commands_run[Len(commands_run)]))

\* main returned an error from configure_tools, after a package that was
\* not found was installed
C18_Witness ==
    /\ vite_pc = "error"
    /\ RanWith(Len(commands_run), "check_pnpm", "exit_failure")
    /\ RanWith(Len(commands_run), "install_pnpm", "exit_success")
    /\ commands_run[Len(commands_run)] = <<"eslint_init", "exit_failure">>

\* main returned Ok(()) after every step
C18_WitnessOk ==
    /\ vite_pc = "ok"
    /\ RanWith(Len(commands_run), "check_node", "exit_failure")
    /\ RanWith(Len(commands_run), "prettier_init", "exit_success")
====
